---- MODULE Spec2Model ----
(***************************************************************************)
(* The rate limiter of ratelimit/as112.go: a fixed table of buckets        *)
(* indexed by the adler32 checksum of the client's IP, written only by the *)
(* blockerUpdate goroutine, which drains the buffered channel b.ch that    *)
(* Count feeds, and read by Block on the request path.                     *)
(*                                                                         *)
(* The update goroutine is modelled statement by statement (upc is the     *)
(* line it is about to execute): every read of the clock and every write   *)
(* of a bucket field is a step of its own, so that the clock may advance   *)
(* and Block may read between any two of them.                             *)
(***************************************************************************)
EXTENDS Integers, Sequences, FiniteSets, TLC

\* ------------------------------------------------------------ constants
WINDOW == 5
BUCKETSIZE == 10000
LIMIT == 50
\* time.Second, in ticks of the model's clock
Second == 2

\* Capacity of b.ch (make(chan *request, 10000) in main), scaled down.
ChanCap == 1
\* Handlers that may be parked in Count at the same time.
MaxParked == 1
\* Count calls issued in one run of Spec, and the last tick of its clock.
MaxCount == 2
MaxTime == 11
\* The requests of the burst of SpecBurst.
BurstLen == 60
\* The requests of the client of SpecSpaced.
SpacedLen == 4

\* ------------------------------------------------------------ addresses
\* net.Addr values: *net.UDPAddr, *net.TCPAddr, or another implementation.
AU == [net |-> "udp", ip |-> <<10, 1, 0, 2>>, port |-> 53]
BU == [net |-> "udp", ip |-> <<10, 0, 0, 1>>, port |-> 53]
XO == [net |-> "unix", ip |-> <<>>, port |-> 0]
Addrs == {AU, BU, XO}
\* A second UDP client, whose IP has the same checksum modulo BUCKETSIZE as
\* AU's, and the two clients of SpecShared.
CU == [net |-> "udp", ip |-> <<10, 0, 2, 1>>, port |-> 53]
Sharers == {AU, CU}
\* The addresses of SpecIndex: UDP and TCP addresses over IPs of 0, 4 and 16
\* bytes (the nil IP, IPv4 in its short form, IPv4 in the 16-byte form net
\* also uses, and ::1) and two ports, and XO.
IPs ==
    {<<a, b, c, d>> : a \in {10, 255}, b \in {0, 1},
                      c \in {0, 2}, d \in {1, 2, 255}}
    \cup {<<0, 0, 0, 0>>, <<255, 255, 255, 255>>,
          <<0, 0, 0, 0, 0, 0, 0, 0, 0, 0, 255, 255, 10, 1, 0, 2>>,
          <<0, 0, 0, 0, 0, 0, 0, 0, 0, 0, 0, 0, 0, 0, 0, 1>>,
          <<>>}
Ports == {53, 5353}
Hosts ==
    {[net |-> n, ip |-> i, port |-> p] : n \in {"udp", "tcp"}, i \in IPs, p \in Ports}
    \cup {XO}
\* The nil net.Addr, which no request carries.
NoAddr == [net |-> "nil", ip |-> <<>>, port |-> 0]

\* hash/adler32.Checksum over the bytes of the IP (values fit 32 bits).
RECURSIVE AdlerA(_), AdlerB(_)
AdlerA(bytes) ==
    IF bytes = <<>> THEN 1
    ELSE (AdlerA(SubSeq(bytes, 1, Len(bytes) - 1)) + bytes[Len(bytes)]) % 65521
AdlerB(bytes) ==
    IF bytes = <<>> THEN 0
    ELSE (AdlerB(SubSeq(bytes, 1, Len(bytes) - 1)) + AdlerA(bytes)) % 65521
Checksum(bytes) == AdlerB(bytes) * 65536 + AdlerA(bytes)

\* a.(*net.UDPAddr) or a.(*net.TCPAddr) succeeds
IsIP(a) == a.net \in {"udp", "tcp"}

\* int(adler32.Checksum(t.IP) % BUCKETSIZE), tabulated for the addresses of
\* the model.
\* The index taken over the port as well as the IP.
Index_WithPort == [a \in Hosts |-> (Checksum(a.ip) + a.port) % BUCKETSIZE]
\* The index without the reduction modulo BUCKETSIZE.
Index_NoMod == [a \in Hosts |-> Checksum(a.ip)]
Index == [a \in Hosts |-> Checksum(a.ip) % BUCKETSIZE]

\* offset as both blockerUpdate and Block compute it, given the value offset
\* holds before the two type switches.
OffsetFor(a, prev) == IF IsIP(a) THEN Index[a] ELSE prev

\* The slots of b.block the addresses of the model can index; every other
\* slot of the array stays nil for ever and is left out of the state.
Slots == {OffsetFor(a, 0) : a \in Addrs}

VARIABLES
    block,    \* b.block restricted to Slots: nil or a bucket
    ch,       \* b.ch: the buffered requests, oldest first
    sendq,    \* the requests of the handlers parked in b.ch <- (oldest first)
    upc,      \* blockerUpdate: the line it executes next
    offset,   \* blockerUpdate: its local offset (declared outside the loop)
    r,        \* blockerUpdate: the request it received
    now,      \* the wall clock, in ticks
    issued,   \* Count calls made since the initial state
    pre,      \* history: the bucket blockerUpdate found at line 65 for the
              \* request it is applying, and the time it read there
    steady,   \* history: no request so far was applied a second or more
              \* after the previous write of its slot
    replied   \* the replies the handlers have written (w.WriteMsg)

vars == <<block, ch, sendq, upc, offset, r, now, issued, pre, steady, replied>>

Bucket(a, t, rate, count) == [source |-> a, stamp |-> t, rate |-> rate, count |-> count]
Request(a) == [a |-> a]
\* The nil *bucket of an empty slot and the nil *request, as records no
\* bucket or request of the program equals.
nil == Bucket(NoAddr, 0, 0, 0)
NoRequest == Request(NoAddr)
NoPre == [b |-> nil, t |-> 0]

\* time.Since(stamp)
Since(stamp) == now - stamp
\* uint(d.Seconds()): the whole seconds of a duration
Seconds(d) == d \div Second
\* x >> n on a non-negative int
RECURSIVE Shr(_, _)
Shr(x, n) == IF n = 0 \/ x = 0 THEN x ELSE Shr(x \div 2, n - 1)

\* The conditions of lines 65, 71 and 100, and the decay of line 77.
SameWindow(d) == d < Second
\* Stale with the window taken one second too long.
Stale_Late(d) == d > (WINDOW + 1) * Second
Stale(d) == d > WINDOW * Second
\* Decay without the shift.
Decay_None(rate, d) == rate
Decay(rate, d) == Shr(rate, Seconds(d))
\* OverLimit with >= for >.
OverLimit_AtLimit(rate) == rate >= LIMIT
OverLimit(rate) == rate > LIMIT

\* The bucket of a after n requests from a applied at time 0 to its empty
\* slot: line 62 for the first, lines 66-68 for each of the others.
RECURSIVE Flood(_, _)
Flood(a, n) ==
    IF n = 1 THEN Bucket(a, 0, 0, 1)
    ELSE LET b == Flood(a, n - 1)
         IN  [b EXCEPT !.count = b.count + 1, !.rate = b.count + 1]

Empty == [s \in Slots |-> nil]

InitWith(table, off) ==
    /\ block = table
    /\ ch = <<>>
    /\ sendq = <<>>
    /\ upc = "recv"
    /\ offset = off
    /\ r = NoRequest
    /\ now = 0
    /\ issued = 0
    /\ pre = NoPre
    /\ steady = TRUE
    /\ replied = 0

\* The state after construction, or the state after AU's first LIMIT
\* requests came in at once and were applied, which SpecBurst reaches from
\* the state after construction (blockerUpdate's offset is then AU's).
Flooded == [Empty EXCEPT ![OffsetFor(AU, 0)] = Flood(AU, LIMIT)]

Init ==
    \/ InitWith(Empty, 0)
    \/ InitWith(Flooded, OffsetFor(AU, 0))

\* ------------------------------------------------------------ the clock
TickTo(max) ==
    /\ now < max
    /\ now' = now + 1
    /\ UNCHANGED <<block, ch, sendq, upc, offset, r, issued, pre, steady, replied>>

Tick == TickTo(MaxTime)

\* ------------------------------------------------------------ Count
\* CountN losing the request instead of sending it.
CountN_Lossy(a, max) ==
    /\ issued < max
    /\ issued' = issued + 1
    /\ UNCHANGED <<block, ch, sendq, upc, offset, r, now, pre, steady, replied>>

\* CountN as it would be if the handler updated the table itself.
CountN_Writes(a, max) ==
    /\ issued < max
    /\ issued' = issued + 1
    /\ block' = [block EXCEPT ![OffsetFor(a, 0)] =
                     IF @ = nil THEN Bucket(a, now, 0, 1)
                     ELSE [@ EXCEPT !.count = @ + 1]]
    /\ UNCHANGED <<ch, sendq, upc, offset, r, now, pre, steady, replied>>

\* CountN as it would be on a channel without a capacity limit.
CountN_Unbounded(a, max) ==
    /\ issued < max
    /\ issued' = issued + 1
    /\ ch' = Append(ch, Request(a))
    /\ UNCHANGED <<block, sendq, upc, offset, r, now, pre, steady, replied>>

\* b.ch <- &request{a, q, r}: with room in the buffer the request is
\* appended and the call returns; with the buffer full the handler parks
\* until a receive makes room for its request.
CountN(a, max) ==
    /\ issued < max
    /\ issued' = issued + 1
    /\ IF Len(ch) < ChanCap
       THEN /\ ch' = Append(ch, Request(a))
            /\ UNCHANGED sendq
       ELSE /\ Len(sendq) < MaxParked
            /\ sendq' = Append(sendq, Request(a))
            /\ UNCHANGED ch
    /\ UNCHANGED <<block, upc, offset, r, now, pre, steady, replied>>

Count(a) == CountN(a, MaxCount)

\* w.WriteMsg(m), the statement of the handler that follows b.Count: a
\* handler whose Count has returned and that has not replied yet writes its
\* reply. It touches nothing of the limiter.
WriteMsg ==
    /\ replied < issued - Len(sendq)
    /\ replied' = replied + 1
    /\ UNCHANGED <<block, ch, sendq, upc, offset, r, now, issued, pre, steady>>

\* ------------------------------------------------------------ Block
\* BlockResult as it would be if Block ignored a bucket not written for more
\* than WINDOW seconds.
BlockResult_Expires(a) ==
    LET off == OffsetFor(a, 0) IN
    IF block[off] = nil THEN 0
    ELSE IF Stale(Since(block[off].stamp)) THEN 0
    ELSE IF OverLimit(block[off].rate) THEN -1
    ELSE 0

BlockResult(a) ==
    LET off == OffsetFor(a, 0) IN
    IF block[off] = nil THEN 0
    ELSE IF OverLimit(block[off].rate) THEN -1
    ELSE 0

\* Block as it would be if it decayed the rate it reads.
Block_Decays(a) ==
    /\ block[OffsetFor(a, 0)] # nil
    /\ block' = [block EXCEPT ![OffsetFor(a, 0)].rate = @ \div 2]
    /\ UNCHANGED <<ch, sendq, upc, offset, r, now, issued, pre, steady, replied>>

\* Block as it would be if it refreshed the stamp of the bucket it reads.
Block_Stamps(a) ==
    /\ block[OffsetFor(a, 0)] # nil
    /\ block' = [block EXCEPT ![OffsetFor(a, 0)].stamp = now]
    /\ UNCHANGED <<ch, sendq, upc, offset, r, now, issued, pre, steady, replied>>

\* Block as it would be if it took a lock blockerUpdate holds while it
\* applies a request.
Block_Locked(a) ==
    /\ upc = "recv"
    /\ UNCHANGED vars

\* Block reads b.block[offset] (line 97) and, if it is not nil, its rate (line
\* 100), with no synchronisation, and writes nothing. A slot never returns
\* to nil and each read yields a value blockerUpdate has written, so the call
\* returns BlockResult of the state in which it does its last read: it is one
\* step.
Block(a) ==
    /\ BlockResult(a) \in {0, -1}
    /\ UNCHANGED vars

\* ------------------------------------------------------------ blockerUpdate
Goto(l) == upc' = l
Put(f, v) == block' = [block EXCEPT ![offset][f] = v]
\* continue, or the end of the loop body: r goes out of scope.
Continue == upc' = "recv" /\ r' = NoRequest /\ pre' = NoPre

\* case r := <-b.ch, then the two type switches that set offset. A parked
\* sender, if any, moves its request into the place the receive freed.
Recv ==
    /\ upc = "recv"
    /\ ch # <<>>
    /\ r' = Head(ch)
    /\ IF sendq # <<>>
       THEN /\ ch' = Append(Tail(ch), Head(sendq))
            /\ sendq' = Tail(sendq)
       ELSE /\ ch' = Tail(ch)
            /\ UNCHANGED sendq
    /\ offset' = OffsetFor(Head(ch).a, offset)
    /\ Goto("l61")
    /\ UNCHANGED <<block, now, issued, pre, steady, replied>>

\* Line 62 installing the bucket with the first request already in its rate.
L61_Counted ==
    /\ upc = "l61"
    /\ IF block[offset] = nil
       THEN /\ block' = [block EXCEPT ![offset] = Bucket(r.a, now, 1, 1)]
            /\ Continue
       ELSE /\ Goto("l65")
            /\ UNCHANGED <<block, r, pre>>
    /\ UNCHANGED <<ch, sendq, offset, now, issued, steady, replied>>

L61 ==
    /\ upc = "l61"
    /\ IF block[offset] = nil
       THEN /\ block' = [block EXCEPT ![offset] = Bucket(r.a, now, 0, 1)]
            /\ Continue
       ELSE /\ Goto("l65")
            /\ UNCHANGED <<block, r, pre>>
    /\ UNCHANGED <<ch, sendq, offset, now, issued, steady, replied>>

L65 ==
    /\ upc = "l65"
    /\ IF SameWindow(Since(block[offset].stamp)) THEN Goto("l66") ELSE Goto("l71")
    /\ pre' = [b |-> block[offset], t |-> now]
    /\ steady' = (steady /\ now - block[offset].stamp < Second)
    /\ UNCHANGED <<block, ch, sendq, offset, r, now, issued, replied>>

L66 ==
    /\ upc = "l66"
    /\ Put("stamp", now)
    /\ Goto("l67")
    /\ UNCHANGED <<ch, sendq, offset, r, now, issued, pre, steady, replied>>

\* Line 67 counting the request twice.
L67_Twice ==
    /\ upc = "l67"
    /\ Put("count", block[offset].count + 2)
    /\ Goto("l68")
    /\ UNCHANGED <<ch, sendq, offset, r, now, issued, pre, steady, replied>>

L67 ==
    /\ upc = "l67"
    /\ Put("count", block[offset].count + 1)
    /\ Goto("l68")
    /\ UNCHANGED <<ch, sendq, offset, r, now, issued, pre, steady, replied>>

\* Line 68 left out: the rate is not set from the count.
L68_NoRate ==
    /\ upc = "l68"
    /\ Continue
    /\ UNCHANGED <<block, ch, sendq, offset, now, issued, steady, replied>>

L68 ==
    /\ upc = "l68"
    /\ Put("rate", block[offset].count)
    /\ Continue
    /\ UNCHANGED <<ch, sendq, offset, now, issued, steady, replied>>

L71 ==
    /\ upc = "l71"
    /\ IF Stale(Since(block[offset].stamp)) THEN Goto("l72") ELSE Goto("l77")
    /\ UNCHANGED <<block, ch, sendq, offset, r, now, issued, pre, steady, replied>>

L72 ==
    /\ upc = "l72"
    /\ Put("stamp", now)
    /\ Goto("l73")
    /\ UNCHANGED <<ch, sendq, offset, r, now, issued, pre, steady, replied>>

L73 ==
    /\ upc = "l73"
    /\ Put("rate", 0)
    /\ Goto("l74")
    /\ UNCHANGED <<ch, sendq, offset, r, now, issued, pre, steady, replied>>

\* Lines 72-74 evicting the stale bucket instead of restarting it.
L74_Evicts ==
    /\ upc = "l74"
    /\ block' = [block EXCEPT ![offset] = nil]
    /\ Continue
    /\ UNCHANGED <<ch, sendq, offset, now, issued, steady, replied>>

L74 ==
    /\ upc = "l74"
    /\ Put("count", 1)
    /\ Continue
    /\ UNCHANGED <<ch, sendq, offset, now, issued, steady, replied>>

L77 ==
    /\ upc = "l77"
    /\ Put("rate", Decay(block[offset].rate, Since(block[offset].stamp)))
    /\ Goto("l78")
    /\ UNCHANGED <<ch, sendq, offset, r, now, issued, pre, steady, replied>>

\* Line 78 adding the count twice.
L78_Twice ==
    /\ upc = "l78"
    /\ Put("rate", block[offset].rate + 2 * block[offset].count)
    /\ Goto("l79")
    /\ UNCHANGED <<ch, sendq, offset, r, now, issued, pre, steady, replied>>

L78 ==
    /\ upc = "l78"
    /\ Put("rate", block[offset].rate + block[offset].count)
    /\ Goto("l79")
    /\ UNCHANGED <<ch, sendq, offset, r, now, issued, pre, steady, replied>>

L79 ==
    /\ upc = "l79"
    /\ Put("stamp", now)
    /\ Goto("l80")
    /\ UNCHANGED <<ch, sendq, offset, r, now, issued, pre, steady, replied>>

\* Line 80 clearing the count instead of restarting it at 1.
L80_ZeroCount ==
    /\ upc = "l80"
    /\ Put("count", 0)
    /\ Continue
    /\ UNCHANGED <<ch, sendq, offset, now, issued, steady, replied>>

L80 ==
    /\ upc = "l80"
    /\ Put("count", 1)
    /\ Continue
    /\ UNCHANGED <<ch, sendq, offset, now, issued, steady, replied>>

blockerUpdate ==
    \/ Recv \/ L61 \/ L65 \/ L66 \/ L67 \/ L68
    \/ L71 \/ L72 \/ L73 \/ L74 \/ L77 \/ L78 \/ L79 \/ L80

Next ==
    \/ Tick
    \/ \E a \in Addrs : Count(a)
    \/ \E a \in Addrs : Block(a)
    \/ blockerUpdate

Spec == Init /\ [][Next]_vars

\* The scheduler runs the blockerUpdate goroutine whenever it can take a
\* step: it is never starved for ever.
SpecFair == Spec /\ WF_vars(blockerUpdate)

\* ------------------------------------------------------------ the burst
\* One client, AU, sends up to BurstLen requests to the empty table. The
\* scenario ends (no more requests, the clock stops) once a request was
\* applied a second or more after the previous one; blockerUpdate still
\* applies what is pending.
InitBurst == InitWith(Empty, 0)

CountBurst == steady /\ CountN(AU, BurstLen)

TickBurst == steady /\ Tick

NextBurst ==
    \/ TickBurst
    \/ CountBurst
    \/ Block(AU)
    \/ blockerUpdate

SpecBurst == InitBurst /\ [][NextBurst]_vars

\* ------------------------------------------------------------ a paced client
\* One client, AU, and the empty table. AU sends its first LIMIT requests
\* at time 0 and one more request later than a second after them, so no
\* interval of one second holds more than LIMIT of its requests.
CountPaced ==
    /\ IF issued < LIMIT THEN now = 0 ELSE now > Second
    /\ CountN(AU, LIMIT + 1)

NextPaced ==
    \/ Tick
    \/ CountPaced
    \/ Block(AU)
    \/ blockerUpdate

SpecPaced == InitBurst /\ [][NextPaced]_vars

\* ------------------------------------------------------------ a slow client
\* One client, AU, and the empty table; blockerUpdate is scheduled so that
\* it receives a request for an occupied slot only when a second or more
\* has passed since the stamp of the slot: every request is applied at least
\* one second after the previous one. Lines 66-68 are then never reached.
CountSpaced == CountN(AU, SpacedLen)

RecvSpaced ==
    /\ ch # <<>>
    /\ \/ block[OffsetFor(Head(ch).a, offset)] = nil
       \/ Since(block[OffsetFor(Head(ch).a, offset)].stamp) >= Second
    /\ Recv

NextSpaced ==
    \/ Tick
    \/ CountSpaced
    \/ Block(AU)
    \/ RecvSpaced
    \/ L61 \/ L65 \/ L71 \/ L72 \/ L73 \/ L74 \/ L77 \/ L78 \/ L79 \/ L80

SpecSpaced == InitBurst /\ [][NextSpaced]_vars

\* ------------------------------------------------------------ the index
\* One request, from any address of Hosts, to the empty table: blockerUpdate
\* receives it, computes its offset and installs its bucket (lines 54-64);
\* Block computes the offset of any address of Hosts. The table is b.block
\* restricted to the slots these addresses can index.
IndexSlots == {OffsetFor(a, 0) : a \in Hosts}

InitIndex ==
    /\ block = [s \in IndexSlots |-> nil]
    /\ ch = <<>>
    /\ sendq = <<>>
    /\ upc = "recv"
    /\ offset = 0
    /\ r = NoRequest
    /\ now = 0
    /\ issued = 0
    /\ pre = NoPre
    /\ steady = TRUE
    /\ replied = 0

CountIndex(a) == issued = 0 /\ CountN(a, MaxCount)

\* The first second of the clock: no offset depends on the time.
TickIndex == TickTo(Second)

NextIndex ==
    \/ TickIndex
    \/ \E a \in Hosts : CountIndex(a)
    \/ \E a \in Hosts : Block(a)
    \/ Recv
    \/ L61

SpecIndex == InitIndex /\ [][NextIndex]_vars

\* ------------------------------------------------------------ the handlers
\* The handlers of main with both their statements, b.Count and then
\* w.WriteMsg. (Spec leaves the replies out: they change nothing blockerUpdate
\* or Block reads.)
NextHandler ==
    \/ Tick
    \/ \E a \in Addrs : Count(a)
    \/ WriteMsg
    \/ \E a \in Addrs : Block(a)
    \/ blockerUpdate

SpecHandler == Init /\ [][NextHandler]_vars

\* ------------------------------------------------------------ one slot, two clients
\* AU and CU, whose IPs index the same slot, are the only clients.
NextShared ==
    \/ Tick
    \/ \E a \in Sharers : Count(a)
    \/ \E a \in Sharers : Block(a)
    \/ blockerUpdate

SpecShared == Init /\ [][NextShared]_vars

\* ------------------------------------------------------------ the claims
Rate(s) == block[s].rate
Occupied(s) == block[s] # nil
\* The slot Block reads for a.
SlotOf(a) == OffsetFor(a, 0)
\* The elapsed time blockerUpdate read at line 65 for the request it applies.
PreE == pre.t - pre.b.stamp
\* This step ends the application of a request to an occupied slot.
Applies == pre # NoPre /\ upc' = "recv"
\* The requests blockerUpdate has applied completely.
Applied == issued - Len(ch) - Len(sendq) - (IF upc = "recv" THEN 0 ELSE 1)
\* Nothing is waiting to be applied.
Quiescent == ch = <<>> /\ sendq = <<>> /\ upc = "recv"

C2_BurstBlocks ==
    steady =>
        /\ Applied >= LIMIT => Rate(SlotOf(AU)) >= LIMIT
        /\ Applied >= LIMIT + 1 => BlockResult(AU) = -1

C2_Witness ==
    /\ steady
    /\ Applied = BurstLen
    /\ now > Second
    /\ BlockResult(AU) = -1

\* C3: a request that blockerUpdate finds more than WINDOW seconds after the
\* stamp of its occupied slot leaves the bucket with rate 0, count 1 and a
\* stamp read from the clock during this application, whatever the rate and
\* the count were; Block for the slot then returns 0.
C3_StaleReset ==
    [][ (Applies /\ PreE > WINDOW * Second) =>
            /\ block'[offset].rate = 0
            /\ block'[offset].count = 1
            /\ block'[offset].stamp >= pre.t
            /\ block'[offset].stamp <= now
            /\ \A a \in Addrs : SlotOf(a) = offset => BlockResult(a)' = 0 ]_vars

C3_Witness ==
    /\ upc = "l74"
    /\ PreE > WINDOW * Second
    /\ pre.b.rate >= LIMIT
    /\ pre.b.count > 1
    /\ block[offset].rate = 0

\* C4 (the claim as stated): a request from a UDP or TCP address applied
\* less than a second after the stamp of its slot leaves a count greater than
\* the old one and a rate not lower than the old one.
C4_NeverLowers ==
    [][ (Applies /\ IsIP(r.a) /\ PreE < Second) =>
            /\ block'[offset].count > pre.b.count
            /\ block'[offset].rate >= pre.b.rate ]_vars

C6_SameDecision ==
    [][ issued' = issued =>
            \A a \in Addrs : BlockResult(a)' = BlockResult(a) ]_vars

\* C6 (amended): when nothing is waiting to be applied (the queue is empty,
\* no caller is parked in Count, blockerUpdate is waiting for a request), a
\* step that is no Count call changes no value Block returns and leaves
\* nothing waiting; so Block calls from then on agree until the next Count.
C6_SameDecisionWhenQuiescent ==
    [][ (issued' = issued /\ Quiescent) =>
            /\ Quiescent'
            /\ \A a \in Addrs : BlockResult(a)' = BlockResult(a) ]_vars

C6_Witness ==
    /\ Quiescent
    /\ issued = MaxCount
    /\ now > 0
    /\ BlockResult(AU) = -1

\* C7 (the claim as stated): a Count call made with the queue full returns
\* at once and its request is dropped, so no caller is ever suspended in
\* Count.
C7_DropOnFull == sendq = <<>>

\* C8: Block can be called, and returns, in every reachable state: it waits
\* for no step of blockerUpdate or of a Count caller.
C8_BlockNeverWaits == \A a \in Addrs : ENABLED Block(a)

C8_Witness ==
    /\ Len(ch) = ChanCap
    /\ sendq # <<>>
    /\ \E a \in Addrs : Occupied(SlotOf(a))

\* C9: a Block call changes no slot of the table and nothing of the queue,
\* whatever it returns.
C9_BlockReadOnly ==
    [][ \A a \in Addrs : Block(a) => (block' = block /\ ch' = ch /\ sendq' = sendq) ]_vars

C9_Witness ==
    /\ BlockResult(AU) = -1
    /\ BlockResult(BU) = 0
    /\ ch # <<>>

\* C10: a Count(a) call that returns has appended exactly one request, with
\* address a, to the queue and has changed no slot of the table: either at
\* once, or, for a caller that was parked, when a receive makes room.
C10_CountEnqueuesOne ==
    [][ /\ \A a \in Addrs :
               (Count(a) /\ sendq' = sendq) =>
                   (ch' = Append(ch, Request(a)) /\ block' = block)
        /\ (sendq # <<>> /\ sendq' # sendq /\ issued' = issued) =>
               /\ sendq' = Tail(sendq)
               /\ ch' = Append(Tail(ch), Head(sendq))
               /\ block' = block ]_vars

C10_Witness ==
    /\ issued = MaxCount
    /\ upc = "l61"
    /\ r = Request(AU)
    /\ ch = <<Request(BU)>>
    /\ sendq = <<>>

\* C11 (the claim as stated): whatever was processed before, the slot
\* blockerUpdate uses for the request it is applying is the slot Block reads
\* for the address of that request.
C11_SlotOfAddress == upc # "recv" => offset = SlotOf(r.a)

\* C12 (the claim as stated): Block allows an address that is neither UDP
\* nor TCP in every state, and no step that applies a request from such an
\* address changes the bucket of another client.
C12_NoRateData ==
    [][ \A a \in Addrs : ~IsIP(a) =>
            /\ BlockResult(a)' = 0
            /\ (upc # "recv" /\ r = Request(a)) =>
                   \A s \in Slots :
                       (Occupied(s) /\ block[s].source # a) => block'[s] = block[s] ]_vars

\* C13 (the claim as stated): when a request from one of two clients that
\* share a slot is applied to the bucket the other client installed and
\* raised, W seconds or less after the stamp of the slot, the rate is not
\* reset: the new rate is at least the old rate decayed over the elapsed
\* time.
C13_SharedNotReset ==
    [][ ( /\ Applies
          /\ r.a # pre.b.source
          /\ SlotOf(r.a) = SlotOf(pre.b.source)
          /\ pre.b.rate > 0
          /\ PreE <= WINDOW * Second ) =>
            block'[offset].rate >= Decay(pre.b.rate, PreE) ]_vars

\* C14: only blockerUpdate writes the table. Every step that changes
\* block (a slot going from nil to a bucket, or a field of a bucket) is a
\* step of blockerUpdate; a step of Count changes nothing but the channel and
\* the queue of its parked senders; a step of Block changes nothing.
C14_SingleWriter ==
    [][ /\ block' # block => blockerUpdate
        /\ \A a \in Addrs :
               Count(a) => UNCHANGED <<block, upc, offset, r, now>>
        /\ \A a \in Addrs :
               Block(a) => UNCHANGED <<block, ch, sendq, upc, offset, r, now>> ]_vars

\* blockerUpdate is between two writes of a bucket (stamp written, count not
\* yet) while the request of another Count waits in the channel.
C14_Witness ==
    /\ upc = "l67"
    /\ block[offset].stamp = now
    /\ now > 0
    /\ ch # <<>>

\* C15: in every reachable state, the states between two statements of one
\* update included, every occupied slot has rate >= 0 and count >= 1.
C15_RateAndCountBounds ==
    \A s \in Slots : Occupied(s) => (block[s].rate >= 0 /\ block[s].count >= 1)

\* Inside the update that decays the flooded slot after W seconds: line 77
\* has shifted the rate from LIMIT down to 1, the count is still LIMIT.
C15_Witness ==
    /\ upc = "l78"
    /\ pre.b.rate = LIMIT
    /\ block[offset].rate = 1
    /\ block[offset].count = LIMIT

\* The k-th request a Count call has put in the channel is eventually
\* received and applied (checked under SpecFair).
EventuallyApplied ==
    \A k \in 1..MaxCount : (issued - Len(sendq) >= k) ~> (Applied >= k)

\* C16 (the claim as stated, its safety part): a receive takes exactly the
\* oldest request off the channel, and the step that ends the application of
\* a request from address a has updated the slot Block reads for a, which
\* then holds a bucket.
C16_AppliedToItsSlot ==
    [][ /\ Recv => (r' = Head(ch) /\ Len(ch') + Len(sendq') = Len(ch) + Len(sendq) - 1)
        /\ \A a \in Addrs :
               (r = Request(a) /\ upc # "recv" /\ upc' = "recv") =>
                   (offset = SlotOf(a) /\ block'[SlotOf(a)] # nil) ]_vars

\* What the decay of the bucket found at line 65 leaves for one reading t
\* of the clock.
DecayedAt(t) ==
    [pre.b EXCEPT !.rate = Shr(pre.b.rate, Seconds(t - pre.b.stamp)) + pre.b.count,
                  !.count = 1,
                  !.stamp = t]

\* C17 (the claim as stated): when a request is applied to an occupied slot
\* and the time T its stamp becomes is e after the old stamp, with
\* 1 s <= e <= W s, then the new rate is
\* floor(old rate / 2^floor(e)) + old count and the new count is 1.
C17_DecayedRate ==
    [][ ( /\ Applies
          /\ block'[offset].stamp - pre.b.stamp >= Second
          /\ block'[offset].stamp - pre.b.stamp <= WINDOW * Second ) =>
            block'[offset] = DecayedAt(block'[offset].stamp) ]_vars

\* The same for an update during which the clock stands still, so that all
\* its readings of the clock are the one of line 65 (it holds).
DecayedRateOneReading ==
    [][ (Applies /\ PreE >= Second /\ PreE <= WINDOW * Second /\ now = pre.t) =>
            block'[offset] = DecayedAt(pre.t) ]_vars

\* C18: a request applied to an occupied slot less than a second after its
\* stamp (measured at line 65, or at the time T the stamp becomes) raises the
\* count by exactly 1, sets the rate to the new count, and sets the stamp to
\* a time T read during the update.
C18_SameSecond ==
    [][ ( /\ Applies
          /\ \/ PreE < Second
             \/ block'[offset].stamp - pre.b.stamp < Second ) =>
            /\ block'[offset].count = pre.b.count + 1
            /\ block'[offset].rate = block'[offset].count
            /\ block'[offset].stamp >= pre.t
            /\ block'[offset].stamp <= now ]_vars

\* The flooded slot after one more request from AU, applied half a second
\* after the flood.
C18_Witness ==
    /\ upc = "recv"
    /\ block[SlotOf(AU)] = Bucket(AU, 1, LIMIT + 1, LIMIT + 1)

\* C19: the step that applies a request whose slot is empty installs in that
\* slot the bucket (address of the request, T = the time read at line 62,
\* rate 0, count 1) and changes no other slot; Block for that address then
\* returns 0.
C19_InstallsBucket ==
    [][ (upc = "l61" /\ block[offset] = nil /\ upc' # "l61") =>
            /\ upc' = "recv"
            /\ block' = [block EXCEPT ![offset] = Bucket(r.a, now, 0, 1)]
            /\ BlockResult(r.a)' = 0 ]_vars

\* BU's first request was applied, after the clock had advanced, to a table
\* in which AU's slot is over the limit.
C19_Witness ==
    /\ upc = "recv"
    /\ now > 0
    /\ block[SlotOf(BU)] = Bucket(BU, now, 0, 1)
    /\ BlockResult(BU) = 0
    /\ BlockResult(AU) = -1

\* C20 (the claim as stated): once a request has been applied to a slot, the
\* source of the bucket in that slot is the address of that request.
C20_SourceIsLastWriter ==
    [][ (upc # "recv" /\ upc' = "recv") => block'[offset].source = r.a ]_vars

\* C21 (the claim as stated): a request applied to a slot whose bucket was
\* installed for another address leaves in the slot a bucket for the address
\* of the request, with the rate and count of a first request.
C21_OverwritesOccupant ==
    [][ (Applies /\ pre.b.source # r.a) =>
            /\ block'[offset].source = r.a
            /\ block'[offset].rate = 0
            /\ block'[offset].count = 1 ]_vars

\* Applying a request from a UDP or TCP address changes no slot but the one
\* of that address (checked under Spec: it holds).
FrameForIP ==
    [][ (upc # "recv" /\ IsIP(r.a)) =>
            \A s \in Slots : s # SlotOf(r.a) => block'[s] = block[s] ]_vars

\* C22 (the claim as stated): a request is received only when the previous
\* one has been applied completely, and no step that applies a request
\* changes a slot other than the one indexed by the address of the request.
C22_OneSlotFrame ==
    [][ /\ Recv => (upc = "recv" /\ r = NoRequest)
        /\ upc # "recv" =>
               \A s \in Slots : s # SlotOf(r.a) => block'[s] = block[s] ]_vars

\* C23: the channel never holds more requests than its capacity; a handler
\* is parked in Count only while the channel is full; and a Count call made
\* while the channel holds fewer requests than its capacity puts its request
\* in the channel in that same step, with no step of blockerUpdate needed.
C23_ParksOnlyWhenFull ==
    [][ /\ Len(ch) <= ChanCap
        /\ sendq # <<>> => Len(ch) = ChanCap
        /\ \A a \in Addrs :
               (Count(a) /\ Len(ch) < ChanCap) =>
                   (ch' = Append(ch, Request(a)) /\ sendq' = sendq /\ upc' = upc) ]_vars

\* The channel is full, a handler is parked behind it, and blockerUpdate is
\* idle at its receive.
C23_Witness ==
    /\ Len(ch) = ChanCap
    /\ Len(sendq) = MaxParked
    /\ upc = "recv"
    /\ issued = ChanCap + MaxParked

\* C24 (the claim as stated): every handler writes its reply before it calls
\* Count, so at any time at least as many replies have been written as Count
\* calls were made, and no handler parked in Count still owes its reply.
C24_ReplyBeforeCount == issued <= replied

\* C25: the table keeps the slots it has, and every offset blockerUpdate or
\* Block computes, for every address, lies in 0..BUCKETSIZE-1.
C25_IndexInRange ==
    /\ DOMAIN block = IndexSlots
    /\ offset \in 0..(BUCKETSIZE - 1)
    /\ \A a \in Hosts : SlotOf(a) \in 0..(BUCKETSIZE - 1)

\* blockerUpdate has installed the bucket of an address whose checksum is
\* BUCKETSIZE or more.
C25_Witness ==
    /\ upc = "recv"
    /\ \E a \in Hosts :
           /\ Checksum(a.ip) >= BUCKETSIZE
           /\ offset = SlotOf(a)
           /\ block[offset].source = a

\* C26: a step that is not a step of blockerUpdate - the clock advancing, a
\* Count call, a Block call - changes the result of Block for no address;
\* so between two updates of a slot Block returns the same value however
\* long the clock runs, also more than WINDOW seconds beyond the stamp.
C26_TimeAloneChangesNothing ==
    [][ (block' = block \/ now' # now) =>
            \A a \in Addrs : BlockResult(a)' = BlockResult(a) ]_vars

\* The flooded slot one request later: over the limit, not written for more
\* than WINDOW seconds, nothing pending, and still reported as blocked.
C26_Witness ==
    /\ Quiescent
    /\ issued = 1
    /\ Rate(SlotOf(AU)) = LIMIT + 1
    /\ Since(block[SlotOf(AU)].stamp) > WINDOW * Second
    /\ BlockResult(AU) = -1

\* The rate the update in progress leaves in the slot, where the rate the
\* slot holds differs from the one found at line 65: the sum line 78 is
\* about to store, or else the rate already there (lines 68, 73 and 78 are
\* the last writes of the rate in their branches).
RateAfter ==
    IF upc = "l78" THEN block[offset].rate + block[offset].count
    ELSE block[offset].rate

\* C27 (the claim as stated): while blockerUpdate applies a request to an
\* occupied slot, the decision Block takes from the rate it reads in that
\* slot is the decision for the rate before the update or the decision for
\* the rate after it.
C27_BeforeOrAfter ==
    pre # NoPre =>
        \/ OverLimit(block[offset].rate) = OverLimit(pre.b.rate)
        \/ OverLimit(block[offset].rate) = OverLimit(RateAfter)

\* C28 (the claim as stated): for a single client that starts on an empty
\* slot and sends at most LIMIT requests within any one second, the rate of
\* its slot never exceeds LIMIT and Block never returns -1 for it.
C28_PacedNeverBlocked ==
    /\ Occupied(SlotOf(AU)) => Rate(SlotOf(AU)) <= LIMIT
    /\ BlockResult(AU) = 0

\* C29: for a single client on an empty slot whose requests are each applied
\* a second or more after the previous one, the rate of the slot is 2 or
\* less in every state, the count is 1 whenever no update is in progress,
\* and Block returns 0.
C29_SpacedStaysLow ==
    /\ Occupied(SlotOf(AU)) =>
          /\ Rate(SlotOf(AU)) <= 2
          /\ upc = "recv" => block[SlotOf(AU)].count = 1
    /\ BlockResult(AU) = 0

\* All SpacedLen requests were applied, the last three by the decay branch.
C29_Witness ==
    /\ Quiescent
    /\ issued = SpacedLen
    /\ Rate(SlotOf(AU)) = 1
    /\ block[SlotOf(AU)].stamp >= 3 * Second
    /\ block[SlotOf(AU)].stamp <= WINDOW * Second

\* C30: a slot that holds a bucket holds one after every step, and it is the
\* same bucket object: only its stamp, rate and count are written, a bucket
\* is stored in a slot (line 62) only when the slot is nil.
C30_OccupancyGrows ==
    [][ \A s \in Slots :
            Occupied(s) =>
                /\ Occupied(s)'
                /\ block'[s].source = block[s].source
                /\ block'[s] # block[s] =>
                       (upc \notin {"recv", "l61"} /\ s = offset) ]_vars

\* The flooded bucket after a request that found it stale: restarted by
\* lines 72-74, still in its slot.
C30_Witness ==
    /\ upc = "recv"
    /\ block[SlotOf(AU)].source = AU
    /\ Rate(SlotOf(AU)) = 0
    /\ block[SlotOf(AU)].count = 1
    /\ block[SlotOf(AU)].stamp > WINDOW * Second

\* UDP and TCP addresses with the same IP bytes, whatever their network and
\* port, have the same index.
IndexFromIPOnly ==
    \A a, b \in Hosts :
        (IsIP(a) /\ IsIP(b) /\ a.ip = b.ip) => Index[a] = Index[b]

\* C31: for UDP and TCP addresses the slot depends on the bytes of the IP
\* alone. Two such addresses with the same IP - one UDP and one TCP, or with
\* different ports - get the same offset in Block and in blockerUpdate,
\* whatever offset blockerUpdate held before, so the bucket blockerUpdate
\* writes for one is the bucket Block reads for the other.
C31_SlotFromIPOnly ==
    /\ IndexFromIPOnly
    /\ \A a \in Hosts :
           (IsIP(a) /\ IsIP(r.a) /\ a.ip = r.a.ip) =>
               /\ upc # "recv" => (offset = SlotOf(a) /\ OffsetFor(a, offset) = offset)
               /\ BlockResult(a) = BlockResult(r.a)
    /\ \A s \in IndexSlots, a \in Hosts :
           (Occupied(s) /\ IsIP(a) /\ IsIP(block[s].source) /\ a.ip = block[s].source.ip) =>
               (SlotOf(a) = s /\ OffsetFor(a, offset) = s)

\* The bucket installed for a UDP address is the one Block reads, and
\* blockerUpdate would write, for a TCP address with the same IP and another
\* port.
C31_Witness ==
    /\ upc = "recv"
    /\ \E a, b \in Hosts :
           /\ a.net = "udp" /\ b.net = "tcp"
           /\ a.ip = b.ip /\ a.port # b.port
           /\ Checksum(a.ip) >= BUCKETSIZE
           /\ block[SlotOf(b)].source = a
           /\ OffsetFor(b, 0) = offset
====
